---------------------------- MODULE Spec2Model ----------------------------
(***************************************************************************)
(* Soft Actor-Critic training loop of robojax (robojax/agents/sac/sac.py). *)
(*                                                                         *)
(* The state is that of one SAC object and of one call of SAC.train: the   *)
(* configuration record, the replay buffer, the step counter, the locals   *)
(* of train (rng_key, env_state, env_states, dones, ep_lens, ep_rets), the *)
(* ActorCritic bundle, and a trace of the calls the loop has made (keys    *)
(* consumed, arguments of the last store, inputs and outputs of the last   *)
(* update cycle).                                                          *)
(*                                                                         *)
(* Collaborators whose code is not in the source tree (GenericBuffer, the  *)
(* loss module, the logger, the environments) are modelled from their      *)
(* contract in the specification.                                          *)
(***************************************************************************)
EXTENDS Integers, Sequences, FiniteSets, TLC

VARIABLES
    pc,         \* position: "new", "constructed", then in train "head", "step",
                \* "update", and "done" (train returned) or "failed" (an exception)
    err,        \* the exception that ended construction or train ("" while none)
    cfg,        \* self.cfg together with the cfg argument's shape
    jax_env,    \* the jax_env constructor argument
    step,       \* self.step
    buf,        \* self.replay_buffer
    rng_key,    \* train's local rng_key
    env_state,  \* train's local env_state  (bound by line 105 only)
    env_states, \* train's local env_states (bound by lines 108 and 154)
    dones,      \* train's local dones
    ep_lens,    \* train's local ep_lens
    ep_rets,    \* train's local ep_rets
    ac,         \* the ActorCritic bundle: actor, critic, target_critic, temp
    keylog,     \* trace: keys consumed so far, and keys consumed more than once
    envlog,     \* trace: environment calls (state returned last, state passed last)
    last,       \* trace: dones, ep_lens and mask of the last call of replay_buffer.store
    cyc,        \* trace: the last update cycle (inputs read, outputs, gates)
    count,      \* trace: numbers of critic updates, actor updates, evaluations
    eplog       \* trace: per environment the completed episode whose return and
                \* length the logger was not given yet; whether a store went wrong

vars == << pc, err, cfg, jax_env, step, buf, rng_key, env_state, env_states,
           dones, ep_lens, ep_rets, ac, keylog, envlog, last, cyc, count,
           eplog >>

-----------------------------------------------------------------------------
(* Bounds of the model.                                                    *)

MaxSeed   == 2     \* num_seed_steps ranges over 0..MaxSeed
MaxTrain  == 4     \* num_train_steps of the small runs
MaxEnvs   == 2     \* num_envs ranges over 1..MaxEnvs
MaxFreq   == 2     \* actor_update_freq, target_update_freq range over 1..MaxFreq
MaxEpLen  == 2     \* max_episode_length ranges over 1..MaxEpLen
MaxReward == 1     \* a step's reward ranges over 0..MaxReward
TauDen    == 2     \* tau ranges over 0/TauDen .. TauDen/TauDen

\* Values of train's locals env_state and env_states: a name no assignment
\* has bound yet, Python's None, or the n-th state the environment returned.
Unbound     == [ bound |-> FALSE, none |-> FALSE, id |-> 0 ]
NoneValue   == [ bound |-> TRUE,  none |-> TRUE,  id |-> 0 ]
EnvState(n) == [ bound |-> TRUE,  none |-> FALSE, id |-> n ]

-----------------------------------------------------------------------------
(* Configuration: SACConfig and the cfg argument of SAC.__init__.          *)

\* Fields of SACConfig without a default value.
Required == {"num_seed_steps", "replay_buffer_capacity", "batch_size"}

\* Fields of SACConfig: the attributes a constructed SACConfig has.
SACConfigFields ==
    Required \cup
    {"num_envs", "steps_per_env", "grad_updates_per_step", "tau", "discount",
     "backup_entropy", "target_entropy", "learnable_temp", "initial_temperature",
     "actor_update_freq", "target_update_freq", "eval_freq", "eval_steps",
     "num_eval_envs", "log_freq", "save_freq"}

\* Attributes train reads from self.cfg that SACConfig does not declare.
TrainOnlyFields == {"num_train_steps", "max_episode_length"}

\* The attributes train, update_parameters and evaluate read from self.cfg.
TrainReads ==
    {"num_envs", "num_train_steps", "eval_freq", "num_seed_steps",
     "max_episode_length", "actor_update_freq", "target_update_freq",
     "batch_size", "log_freq", "target_entropy", "learnable_temp", "discount",
     "backup_entropy", "tau", "num_eval_envs", "eval_steps"}

\* The attributes of self.cfg after construction: the dataclass's fields and
\* whatever else the caller's cfg object carries (c.extra).
HasField(c, f) == f \in SACConfigFields \/ f \in c.extra

\* SACConfig(**cfg) and the dataclass constructor: a missing required field or
\* (for a dict) a keyword that is no field raises TypeError.
ConfigAccepted(c) ==
    /\ Required \subseteq c.given
    /\ c.is_dict => c.extra = {}

BaseCfg ==
    [ num_seed_steps |-> 1, num_train_steps |-> MaxTrain, max_episode_length |-> MaxEpLen,
      num_envs |-> 1, replay_buffer_capacity |-> 3, batch_size |-> 2,
      actor_update_freq |-> 1, target_update_freq |-> 1, tau_num |-> 1,
      learnable_temp |-> TRUE, eval_freq |-> 2, num_eval_envs |-> 2,
      given |-> Required, extra |-> TrainOnlyFields, is_dict |-> FALSE ]

\* Runs of train under every schedule within the bounds.
RunCfgs ==
    { [ BaseCfg EXCEPT !.num_seed_steps = s, !.num_envs = n,
                       !.actor_update_freq = a, !.target_update_freq = t,
                       !.tau_num = tn, !.learnable_temp = lt,
                       !.max_episode_length = m, !.eval_freq = e ] :
        s \in 0..MaxSeed, n \in 1..MaxEnvs, a \in 1..MaxFreq, t \in 1..MaxFreq,
        tn \in 0..TauDen, lt \in BOOLEAN, m \in 1..MaxEpLen, e \in {0, 2} }

\* Shapes of the cfg argument: a dict or an object, with or without the
\* required fields, with or without the attributes only train reads.
ShapeCfgs ==
    { [ BaseCfg EXCEPT !.given = g, !.extra = x, !.is_dict = d ] :
        g \in {Required} \cup { Required \ {f} : f \in Required },
        x \in SUBSET TrainOnlyFields, d \in BOOLEAN }

\* The end-to-end scenario: 20 seed steps, 30 training steps, one environment.
E2ECfg ==
    [ BaseCfg EXCEPT !.num_seed_steps = 20, !.num_train_steps = 30,
                     !.replay_buffer_capacity = 100, !.batch_size = 10,
                     !.actor_update_freq = 2, !.eval_freq = 25,
                     !.max_episode_length = 5 ]

\* The buffer scenario: 4 parallel environments, capacity 100, 50 steps.
FourEnvCfg ==
    [ BaseCfg EXCEPT !.num_envs = 4, !.num_train_steps = 50,
                     !.replay_buffer_capacity = 100, !.num_seed_steps = 0 ]

Configs == RunCfgs \cup ShapeCfgs \cup {E2ECfg, FourEnvCfg}

Envs(c) == 1..c.num_envs

-----------------------------------------------------------------------------
(* Random keys.  A key is a node of the tree jax.random.split spans from   *)
(* the key train was given: << d, s >> is the node reached by d times      *)
(* taking child 0 and then following the child indices in s (s is empty   *)
(* or starts with a non-zero index).                                       *)

RootKey == << 0, << >> >>

Child(k, i) ==
    IF k[2] = << >> /\ i = 0 THEN << k[1] + 1, << >> >>
                             ELSE << k[1], Append(k[2], i) >>

\* jax.random.split(k, n): n keys, distinct from each other and from k.
Split(k, n) == [ i \in 1..n |-> Child(k, i - 1) ]

Range(s) == { s[i] : i \in DOMAIN s }

\* The trace after the keys of ks were consumed, in order.
Consume(log, ks) ==
    [ used   |-> log.used \cup Range(ks),
      reused |-> log.reused
                   \cup (log.used \cap Range(ks))
                   \cup { ks[i] : i \in { j \in DOMAIN ks :
                                           \E h \in 1..(j - 1) : ks[h] = ks[j] } } ]

-----------------------------------------------------------------------------
(* GenericBuffer (robojax.data.buffer): a ring of slots per environment.   *)

CeilDiv(a, b) == (a + b - 1) \div b

\* GenericBuffer(buffer_size, n_envs, config).
NewBuffer(buffer_size, n_envs) ==
    [ n_envs |-> n_envs,
      slots  |-> CeilDiv(buffer_size, n_envs),
      ptr    |-> 0,
      fill   |-> 0,
      stores |-> 0,
      data   |-> [ i \in 0..(CeilDiv(buffer_size, n_envs) - 1) |-> 0 ] ]

\* store accepts one timestep of n_envs rows.
StoreFits(b, rows) == rows = b.n_envs

\* store(...): write at the cursor, advance it modulo the slots, cap the fill.
\* A slot holds the timestep (1, 2, ...) whose transition was written to it.
Store(b, t) ==
    [ b EXCEPT !.data   = [ @ EXCEPT ![b.ptr] = t ],
               !.ptr    = (b.ptr + 1) % b.slots,
               !.fill   = IF b.fill < b.slots THEN b.fill + 1 ELSE b.slots,
               !.stores = b.stores + 1 ]

\* The replay buffer SAC.__init__ builds.
ReplayBufferEnvs(c) == 1

ReplayBuffer(c) == NewBuffer(c.replay_buffer_capacity, ReplayBufferEnvs(c))

-----------------------------------------------------------------------------
(* The update algorithm.  A parameter bundle is an integer; the loss       *)
(* module's gradient steps and its Polyak average act on it.               *)

\* loss.update_critic, loss.update_actor, loss.update_temp: one optimiser
\* step, which returns parameters other than those it was given.
GradStep(p) == p + 1

\* loss.update_target(critic, target_critic, tau), tau = tn / TauDen:
\* target <- tau * critic + (1 - tau) * target.
Polyak(critic, target_critic, tn) ==
    (tn * critic + (TauDen - tn) * target_critic) \div TauDen

NoBatch == [ key |-> RootKey, fill |-> 0, size |-> 0 ]
NoRead  == [ called |-> FALSE, actor |-> 0, critic |-> 0, target_critic |-> 0,
             temp |-> 0, batch |-> NoBatch ]

\* What update_parameters passes to loss.update_critic (line 224).
CriticUpdateArgs(actor, critic, target_critic, temp, batch) ==
    [ called |-> TRUE, actor |-> actor, critic |-> critic,
      target_critic |-> target_critic, temp |-> temp, batch |-> batch ]

\* The critic update_parameters passes to loss.update_target (line 229).
TargetUpdateCritic(critic, new_critic) == critic

\* A variant of ActorUpdateArgs: the actor update is given the critic this
\* cycle has just produced.
ActorUpdateArgsNewCritic(actor, critic, new_critic, temp, batch) ==
    [ called |-> TRUE, actor |-> actor, critic |-> new_critic,
      target_critic |-> 0, temp |-> temp, batch |-> batch ]

\* What update_parameters passes to loss.update_actor (line 232).
ActorUpdateArgs(actor, critic, new_critic, temp, batch) ==
    [ called |-> TRUE, actor |-> actor, critic |-> critic,
      target_critic |-> 0, temp |-> temp, batch |-> batch ]

\* A variant of NewTemp: the temperature is stepped with every actor update,
\* learnable or not.
NewTempAlways(temp, update_actor, learnable_temp) ==
    IF update_actor THEN GradStep(temp) ELSE temp

\* The temperature update_parameters returns (lines 226, 233-234).
NewTemp(temp, update_actor, learnable_temp) ==
    IF update_actor /\ learnable_temp THEN GradStep(temp) ELSE temp

\* A variant of UpdateKeys: no second split, the actor update is given the
\* key the critic update was given.
UpdateKeysShared(key, update_actor) ==
    LET ks == Split(key, 2)
    IN  << key, ks[2] >> \o (IF update_actor THEN << ks[2] >> ELSE << >>)

\* The keys update_parameters consumes, in order (lines 223, 224, 231, 232).
UpdateKeys(key, update_actor) ==
    LET ks  == Split(key, 2)
        ks2 == Split(ks[1], 2)
    IN  << key, ks[2] >> \o (IF update_actor THEN << ks[1], ks2[2] >> ELSE << >>)

\* SAC.update_parameters: the four bundles it returns, what each sub-update
\* read, and the keys consumed.
UpdateParameters(key, actor, critic, target_critic, temp, batch, update_actor, update_target, c) ==
    LET critic_in  == CriticUpdateArgs(actor, critic, target_critic, temp, batch)
        new_critic == GradStep(critic_in.critic)
        target_in  == TargetUpdateCritic(critic, new_critic)
        new_target == IF update_target
                        THEN Polyak(target_in, target_critic, c.tau_num)
                        ELSE target_critic
        actor_in   == IF update_actor
                        THEN ActorUpdateArgs(actor, critic, new_critic, temp, batch)
                        ELSE NoRead
        new_actor  == IF update_actor THEN GradStep(actor_in.actor) ELSE actor
    IN  [ actor         |-> new_actor,
          critic        |-> new_critic,
          target_critic |-> new_target,
          temp          |-> NewTemp(temp, update_actor, c.learnable_temp),
          critic_in     |-> critic_in,
          actor_in      |-> actor_in,
          target_in     |-> IF update_target THEN target_in ELSE 0,
          keys          |-> UpdateKeys(key, update_actor) ]

\* Lines 181-184: the loop replaces the four bundles of ac by the new ones.
Swap(old, res) ==
    [ actor |-> res.actor, critic |-> res.critic,
      target_critic |-> res.target_critic, temp |-> res.temp ]

\* Lines 159-160: a sub-update's gate.
Gate(s, freq) == s % freq = 0

\* A variant of UpdateDue: the cycle starts one step early.
UpdateDueEarly(s, c) == s + 1 >= c.num_seed_steps

\* Line 157: whether the loop runs an update cycle after this step.
UpdateDue(s, c) == s >= c.num_seed_steps

\* Line 130: whether the action comes from the seed sampler.
SeedStep(s, c) == s < c.num_seed_steps

\* Line 112: the schedule check starts with self.step % self.cfg.eval_freq,
\* evaluated before the eval_freq > 0 at its end; Python's modulo by zero
\* raises ZeroDivisionError.
EvalCheckRaises(s, c) == c.eval_freq = 0

\* Line 112, past the modulo: whether an evaluation is due.
EvalDue(s, c) ==
    s % c.eval_freq = 0 /\ s > 0 /\ s >= c.num_seed_steps /\ c.eval_freq > 0

\* A variant of Mask: no exception for an episode cut at the time limit.
MaskNoTimeLimit(done, ep_len, max_episode_length) == ~done

\* Line 138: mask = (~dones) | (ep_lens == max_episode_length).
Mask(done, ep_len, max_episode_length) == (~done) \/ (ep_len = max_episode_length)

-----------------------------------------------------------------------------
(* Episode statistics: what train gives the logger when episodes end.      *)

\* No completed episode is waiting for the logger.
NoEpisode == [ due |-> FALSE, len |-> 0, ret |-> 0 ]

\* Lines 131-135: the step set the done flags d with the accumulators at lens
\* and rets; the episodes it completed now wait for the logger.
EpisodeEnds(log, d, lens, rets) ==
    [ open |-> [ e \in DOMAIN d |->
                  IF d[e] THEN [ due |-> TRUE, len |-> lens[e], ret |-> rets[e] ]
                          ELSE log.open[e] ],
      bad  |-> log.bad \/ \E e \in DOMAIN d : d[e] /\ log.open[e].due ]

\* Lines 115-121: what train gives logger.store, per environment: ep_rets[dones]
\* and ep_lens[dones], the rows of the environments whose done flag is set
\* (nothing when no flag is set).
FlushStore(d, lens, rets) ==
    [ e \in DOMAIN d |->
        IF d[e] THEN [ due |-> TRUE, len |-> lens[e], ret |-> rets[e] ]
                ELSE NoEpisode ]

\* The trace after logger.store was given rows: an episode is stored once when
\* its row is the waiting episode's; any other row is a wrong store.
LoggerStore(log, rows) ==
    [ open |-> [ e \in DOMAIN rows |->
                  IF rows[e].due THEN NoEpisode ELSE log.open[e] ],
      bad  |-> log.bad \/ \E e \in DOMAIN rows :
                              rows[e].due /\ rows[e] # log.open[e] ]

-----------------------------------------------------------------------------
(* Initial state: a cfg argument and a jax_env flag, nothing constructed.  *)

NoKeys   == [ used |-> {}, reused |-> {} ]
NoBuffer == NewBuffer(0, 1)
NoCycle  ==
    [ n |-> 0, step |-> 0, seeded |-> FALSE, stores |-> 0, fill |-> 0,
      update_actor |-> FALSE, update_target |-> FALSE,
      pre |-> [ actor |-> 0, critic |-> 0, target_critic |-> 0, temp |-> 0 ],
      out |-> [ actor |-> 0, critic |-> 0, target_critic |-> 0, temp |-> 0 ],
      critic_in |-> NoRead, actor_in |-> NoRead, target_in |-> 0,
      batch |-> NoBatch ]

Init ==
    /\ cfg \in Configs
    /\ jax_env \in BOOLEAN
    /\ pc = "new"
    /\ err = ""
    /\ step = 0
    /\ buf = NoBuffer
    /\ rng_key = RootKey
    /\ env_state = Unbound
    /\ env_states = Unbound
    /\ dones   = [ e \in Envs(cfg) |-> FALSE ]
    /\ ep_lens = [ e \in Envs(cfg) |-> 0 ]
    /\ ep_rets = [ e \in Envs(cfg) |-> 0 ]
    /\ ac = [ actor |-> 0, critic |-> 0, target_critic |-> 0, temp |-> 0 ]
    /\ keylog = NoKeys
    /\ envlog = [ returned |-> Unbound, passed |-> Unbound, steps |-> 0,
                  seeded |-> FALSE, since |-> [ e \in Envs(cfg) |-> 0 ] ]
    /\ last = [ n |-> 0,
                dones   |-> [ e \in Envs(cfg) |-> FALSE ],
                ep_lens |-> [ e \in Envs(cfg) |-> 0 ],
                mask    |-> [ e \in Envs(cfg) |-> FALSE ] ]
    /\ cyc = NoCycle
    /\ count = [ critic |-> 0, actor |-> 0, evals |-> 0 ]
    /\ eplog = [ open |-> [ e \in Envs(cfg) |-> NoEpisode ], bad |-> FALSE ]

\* train stops with exception e; what it had done before e stays done.
Raise(e) == /\ pc' = "failed" /\ err' = e

-----------------------------------------------------------------------------
(* SAC.__init__                                                            *)

Construct ==
    /\ pc = "new"
    /\ IF ~ConfigAccepted(cfg)
         THEN /\ Raise("TypeError")
              /\ UNCHANGED buf
         ELSE /\ pc' = "constructed"
              /\ buf' = ReplayBuffer(cfg)
              /\ UNCHANGED err
    /\ UNCHANGED << cfg, jax_env, step, rng_key, env_state, env_states, dones,
                    ep_lens, ep_rets, ac, keylog, envlog, last, cyc, count,
                    eplog >>

(* SAC.train, lines 100-110: locals, the first split, the environment reset. *)
TrainBegin ==
    /\ pc = "constructed"
    /\ dones'   = [ e \in Envs(cfg) |-> FALSE ]
    /\ ep_lens' = [ e \in Envs(cfg) |-> 0 ]
    /\ ep_rets' = [ e \in Envs(cfg) |-> 0 ]
    /\ LET ks == Split(rng_key, 2)
           reset_rng_key == ks[2]
       IN  /\ rng_key' = ks[1]
           /\ IF jax_env
                THEN /\ keylog' = Consume(keylog, << rng_key, reset_rng_key >>)
                     /\ env_state' = EnvState(0)
                     /\ envlog' = [ envlog EXCEPT !.returned = EnvState(0) ]
                     /\ UNCHANGED env_states
                ELSE /\ keylog' = Consume(keylog, << rng_key >>)
                     /\ env_states' = NoneValue
                     /\ envlog' = [ envlog EXCEPT !.returned = NoneValue ]
                     /\ UNCHANGED env_state
    /\ IF HasField(cfg, "num_train_steps")
         THEN pc' = "head" /\ UNCHANGED err
         ELSE Raise("AttributeError")
    /\ UNCHANGED << cfg, jax_env, step, buf, ac, last, cyc, count, eplog >>

\* Lines 125-126: an accumulator after the flush of the environments whose
\* done flag the previous step set.
Flush(acc, d) == [ e \in DOMAIN acc |-> IF d[e] THEN 0 ELSE acc[e] ]

\* SAC.evaluate: the keys it consumes, given the key train split off for it
\* (line 247 splits it; the rollout takes one key per evaluation environment).
EvaluateKeys(eval_rng_key, c) ==
    << eval_rng_key >> \o Tail(Split(eval_rng_key, c.num_eval_envs + 1))

(* SAC.train, lines 111-126: the loop test, the evaluation when one is due, *)
(* and the flush of the episodes the previous step completed.               *)
IterHead ==
    /\ pc = "head"
    /\ IF ~(step < cfg.num_train_steps)
         THEN /\ pc' = "done"
              /\ UNCHANGED << err, rng_key, keylog, count, ep_lens, ep_rets, eplog >>
         ELSE IF EvalCheckRaises(step, cfg)
         THEN /\ Raise("ZeroDivisionError")
              /\ UNCHANGED << rng_key, keylog, count, ep_lens, ep_rets, eplog >>
         ELSE /\ pc' = "step"
              /\ UNCHANGED err
              /\ LET ks == Split(rng_key, 2)
                 IN  IF EvalDue(step, cfg)
                       THEN /\ rng_key' = ks[1]
                            /\ keylog' = Consume(keylog,
                                             << rng_key >> \o EvaluateKeys(ks[2], cfg))
                            /\ count' = [ count EXCEPT !.evals = @ + 1 ]
                       ELSE UNCHANGED << rng_key, keylog, count >>
              /\ eplog' = LoggerStore(eplog, FlushStore(dones, ep_lens, ep_rets))
              /\ ep_lens' = Flush(ep_lens, dones)
              /\ ep_rets' = Flush(ep_rets, dones)
    /\ UNCHANGED << cfg, jax_env, step, buf, env_state, env_states, dones, ac,
                    envlog, last, cyc >>

\* SAC._env_step: the keys it consumes, given the key train split off for it
\* (line 87 splits it in three; line 88 samples the action; line 90 steps a
\* functional environment).
EnvStepKeys(env_rng_key, jax) ==
    LET ks == Split(env_rng_key, 3)
    IN  << env_rng_key, ks[2] >> \o (IF jax THEN << ks[3] >> ELSE << >>)

(* SAC.train, lines 128-154: one environment step, the episode accumulators, *)
(* the mask, the store.                                                      *)
StepEnv ==
    /\ pc = "step"
    /\ LET ks == Split(rng_key, 2)
           env_rng_key == ks[2]
       IN
       /\ rng_key' = ks[1]
       /\ IF ~env_states.bound
            THEN /\ Raise("UnboundLocalError")
                 /\ keylog' = Consume(keylog, << rng_key >>)
                 /\ UNCHANGED << step, buf, env_states, dones, ep_lens, ep_rets,
                                 envlog, last, eplog >>
            ELSE \E d \in [ Envs(cfg) -> BOOLEAN ], r \in [ Envs(cfg) -> 0..MaxReward ] :
                 LET next_env_states == IF jax_env THEN EnvState(env_states.id + 1)
                                                   ELSE NoneValue
                     lens == [ e \in Envs(cfg) |-> ep_lens[e] + 1 ]
                 IN
                 /\ keylog' = Consume(keylog,
                                  << rng_key >> \o EnvStepKeys(env_rng_key, jax_env))
                 /\ envlog' = [ returned |-> next_env_states,
                                passed   |-> env_states,
                                steps    |-> envlog.steps + 1,
                                seeded   |-> SeedStep(step, cfg),
                                since    |-> [ e \in Envs(cfg) |->
                                                IF dones[e] THEN 1
                                                            ELSE envlog.since[e] + 1 ] ]
                 /\ dones' = d
                 /\ eplog' = EpisodeEnds(eplog, d, lens,
                                         [ e \in Envs(cfg) |-> ep_rets[e] + r[e] ])
                 /\ ep_lens' = lens
                 /\ ep_rets' = [ e \in Envs(cfg) |-> ep_rets[e] + r[e] ]
                 /\ step' = step + 1
                 /\ IF ~HasField(cfg, "max_episode_length")
                      THEN /\ Raise("AttributeError")
                           /\ UNCHANGED << buf, env_states, last >>
                      ELSE /\ last' = [ n       |-> last.n + 1,
                                        dones   |-> d,
                                        ep_lens |-> lens,
                                        mask    |-> [ e \in Envs(cfg) |->
                                                       Mask(d[e], lens[e],
                                                            cfg.max_episode_length) ] ]
                           /\ IF ~StoreFits(buf, cfg.num_envs)
                                THEN /\ Raise("ValueError")
                                     /\ UNCHANGED << buf, env_states >>
                                ELSE /\ buf' = Store(buf, step + 1)
                                     /\ env_states' = next_env_states
                                     /\ pc' = "update"
                                     /\ UNCHANGED err
    /\ UNCHANGED << cfg, jax_env, env_state, ac, cyc, count >>

(* SAC.train, lines 157-209: the update cycle of this step, when one is due. *)
Update ==
    /\ pc = "update"
    /\ IF ~UpdateDue(step, cfg)
         THEN /\ pc' = "head"
              /\ UNCHANGED << err, rng_key, ac, keylog, cyc, count >>
         ELSE LET ks == Split(rng_key, 3)
                  update_rng_key == ks[2]
                  sample_key     == ks[3]
                  update_actor   == Gate(step, cfg.actor_update_freq)
                  update_target  == Gate(step, cfg.target_update_freq)
                  batch == [ key |-> sample_key, fill |-> buf.fill,
                             size |-> cfg.batch_size ]
                  res == UpdateParameters(update_rng_key, ac.actor, ac.critic,
                                          ac.target_critic, ac.temp, batch,
                                          update_actor, update_target, cfg)
              IN
              /\ rng_key' = ks[1]
              /\ IF buf.fill = 0
                   THEN /\ Raise("EmptyBufferError")
                        /\ keylog' = Consume(keylog, << rng_key, sample_key >>)
                        /\ UNCHANGED << ac, cyc, count >>
                   ELSE /\ pc' = "head"
                        /\ UNCHANGED err
                        /\ keylog' = Consume(keylog,
                                         << rng_key, sample_key >> \o res.keys)
                        /\ ac' = Swap(ac, res)
                        /\ cyc' = [ n |-> cyc.n + 1, step |-> step,
                                    seeded |-> envlog.seeded,
                                    stores |-> buf.stores, fill |-> buf.fill,
                                    update_actor |-> update_actor,
                                    update_target |-> update_target,
                                    pre |-> ac,
                                    out |-> [ actor |-> res.actor, critic |-> res.critic,
                                              target_critic |-> res.target_critic,
                                              temp |-> res.temp ],
                                    critic_in |-> res.critic_in,
                                    actor_in  |-> res.actor_in,
                                    target_in |-> res.target_in,
                                    batch |-> batch ]
                        /\ count' = [ count EXCEPT
                                        !.critic = @ + 1,
                                        !.actor  = IF update_actor THEN @ + 1 ELSE @ ]
    /\ UNCHANGED << cfg, jax_env, step, buf, env_state, env_states, dones,
                    ep_lens, ep_rets, envlog, last, eplog >>

Next == Construct \/ TrainBegin \/ IterHead \/ StepEnv \/ Update

Spec == Init /\ [][Next]_vars

-----------------------------------------------------------------------------
(* Claims.                                                                 *)

\* C1: in the end-to-end scenario (one environment, capacity 100, batch 10,
\* 20 seed steps, 30 training steps, actor_update_freq 2) no update cycle is
\* run for a step whose action came from the seed sampler, and train returns
\* after exactly 10 critic updates and exactly 5 actor updates.
C1_OneCyclePerPostSeedStep ==
    (cfg = E2ECfg /\ ~jax_env) =>
        /\ cyc.n > 0 => ~cyc.seeded
        /\ pc = "done" => (count.critic = 10 /\ count.actor = 5)

\* C2: for every transition train hands to the replay buffer and every
\* environment, the episode length used in the mask is the number of steps
\* since that environment's last done, and the mask is 0 when done with a
\* length below max_episode_length, 1 when done with a length equal to it,
\* and 1 when not done.
C2_MaskCorrect ==
    last.n > 0 =>
        \A e \in Envs(cfg) :
            /\ last.ep_lens[e] = envlog.since[e]
            /\ (last.dones[e] /\ last.ep_lens[e] < cfg.max_episode_length)
                   => ~last.mask[e]
            /\ (last.dones[e] /\ last.ep_lens[e] = cfg.max_episode_length)
                   => last.mask[e]
            /\ ~last.dones[e] => last.mask[e]

\* C2's case: a later episode of an environment ends exactly at
\* max_episode_length, after an earlier episode of it had ended.
C2_Witness ==
    /\ last.n >= 3
    /\ last.dones[1]
    /\ last.ep_lens[1] = cfg.max_episode_length
    /\ last.ep_lens[1] < last.n
    /\ last.mask[1]
    /\ buf.stores = last.n

\* C3: the replay buffer SAC builds has ceil(replay_buffer_capacity / num_envs)
\* slots for each of the num_envs environments; with 4 environments and
\* capacity 100, after 50 steps 25 slots per environment are filled and hold
\* the timesteps 26..50.
C3_BufferPerEnv ==
    (pc # "new" /\ err # "TypeError") =>
        /\ buf.n_envs = cfg.num_envs
        /\ buf.slots = CeilDiv(cfg.replay_buffer_capacity, cfg.num_envs)
        /\ (cfg = FourEnvCfg /\ ~jax_env /\ pc = "done") =>
               /\ buf.fill = 25
               /\ { buf.data[i] : i \in DOMAIN buf.data } = 26..50

\* C4: in an update cycle with update_target set, with tau = 1 the returned
\* target_critic is the critic the same cycle returns, and with tau = 0 it is
\* the target_critic the cycle was given.
C4_TargetUpdate ==
    (cyc.n > 0 /\ cyc.update_target) =>
        /\ cfg.tau_num = TauDen => cyc.out.target_critic = cyc.out.critic
        /\ cfg.tau_num = 0 => cyc.out.target_critic = cyc.pre.target_critic

\* C5: on the functional (jax_env) path every environment step is passed the
\* state the environment returned last (the reset's for the first step, the
\* preceding step's afterwards), never an unbound or stale one.
C5_StateThreaded ==
    jax_env =>
        /\ pc = "step" => env_states = envlog.returned
        /\ envlog.steps > 0 => envlog.passed.bound
        /\ err # "UnboundLocalError"

\* C6: a batch is sampled only after at least num_seed_steps transitions, and
\* at least one, have been stored; the buffer is never sampled while empty.
C6_SampleAfterWarmup ==
    /\ err # "EmptyBufferError"
    /\ cyc.n > 0 =>
           /\ cyc.stores >= cfg.num_seed_steps
           /\ cyc.stores >= 1
           /\ cyc.fill >= 1

\* C6's case: with num_seed_steps = 0 the first batch is sampled right after
\* the first store.
C6_Witness ==
    /\ cfg.num_seed_steps = 0
    /\ cyc.n = 1
    /\ cyc.stores = 1
    /\ cyc.batch.fill = 1

\* C7: once SAC is constructed, every attribute train reads from self.cfg is
\* present, and train never fails on an absent configuration field.
C7_ConfigComplete ==
    (pc # "new" /\ err # "TypeError") =>
        /\ \A f \in TrainReads : HasField(cfg, f)
        /\ err # "AttributeError"

\* C8: in every update cycle the critic update reads the actor as it was
\* before the cycle, every sub-update reads only bundles from before the
\* cycle and the one batch sampled for it, and afterwards the four bundles of
\* ac are those the cycle returned, all of them.
C8_ConsistentCycle ==
    cyc.n > 0 =>
        /\ cyc.critic_in.actor = cyc.pre.actor
        /\ cyc.critic_in.critic = cyc.pre.critic
        /\ cyc.critic_in.target_critic = cyc.pre.target_critic
        /\ cyc.critic_in.temp = cyc.pre.temp
        /\ cyc.critic_in.batch = cyc.batch
        /\ cyc.update_actor =>
               /\ cyc.actor_in.called
               /\ cyc.actor_in.actor = cyc.pre.actor
               /\ cyc.actor_in.critic = cyc.pre.critic
               /\ cyc.actor_in.temp = cyc.pre.temp
               /\ cyc.actor_in.batch = cyc.batch
        /\ cyc.update_target => cyc.target_in = cyc.pre.critic
        /\ ac = cyc.out

\* C8's case: an environment step is about to run after a second or later
\* cycle that updated critic, actor and target.
C8_Witness ==
    /\ pc = "step"
    /\ cyc.n > 1
    /\ cyc.update_actor /\ cyc.update_target
    /\ cyc.pre.actor > 0
    /\ cyc.out.critic # cyc.pre.critic
    /\ cyc.out.actor # cyc.pre.actor

\* C9: every update cycle updates the critic; the actor is returned as given
\* when update_actor is off, the target_critic when update_target is off, the
\* temperature unless update_actor is on and learnable_temp is set; and the
\* gates are step % actor_update_freq = 0 and step % target_update_freq = 0
\* of the one step counter.
C9_GatedUpdates ==
    cyc.n > 0 =>
        /\ cyc.out.critic # cyc.pre.critic
        /\ ~cyc.update_actor => cyc.out.actor = cyc.pre.actor
        /\ ~cyc.update_target => cyc.out.target_critic = cyc.pre.target_critic
        /\ ~(cyc.update_actor /\ cfg.learnable_temp) => cyc.out.temp = cyc.pre.temp
        /\ cyc.update_actor = (cyc.step % cfg.actor_update_freq = 0)
        /\ cyc.update_target = (cyc.step % cfg.target_update_freq = 0)
        /\ cyc.step = cyc.stores

\* C9's case: a cycle with the actor gate on and the target gate off, the
\* temperature not learnable, after earlier cycles had moved the target.
C9_Witness ==
    /\ cyc.n > 1
    /\ cyc.update_actor /\ ~cyc.update_target
    /\ ~cfg.learnable_temp
    /\ cyc.out.actor # cyc.pre.actor
    /\ cyc.pre.critic # cyc.pre.target_critic

\* C10: no random key is consumed (split, or passed to a stochastic
\* operation) more than once in a run of train.
C10_NoKeyReuse == keylog.reused = {}

\* C10's case: train has returned after seed steps, policy steps, update
\* cycles with and without an actor update, and an evaluation.
C10_Witness ==
    /\ pc = "done"
    /\ cfg.num_seed_steps > 0
    /\ count.evals > 0
    /\ count.actor > 0
    /\ count.critic > count.actor
    /\ Cardinality(keylog.used) > 20

\* C11: with eval_freq = 0 train runs no evaluation and its evaluation
\* schedule check raises no error: the run goes on past the check of every
\* iteration, as it does when no evaluation is due.
C11_EvalDisabled ==
    cfg.eval_freq = 0 =>
        /\ count.evals = 0
        /\ err # "ZeroDivisionError"

\* C12: every episode a step of train completes has its return and length
\* given to the logger exactly once, with the values it ended with, before
\* train returns; also the episode that the last training step completes.
C12_EpisodesLogged ==
    /\ ~eplog.bad
    /\ pc = "done" => \A e \in Envs(cfg) : ~eplog.open[e].due
=============================================================================
